---- MODULE Spec2Model ----
(***************************************************************************)
(* A model of package/cleanup-list.py: the block-text parser (parse_desc), *)
(* the repository reader (parse_repo), the archive staging of              *)
(* get_packages, and the orphan classification and maintainer aggregation  *)
(* of main.  Strings whose characters matter are sequences of one-         *)
(* character strings.                                                      *)
(***************************************************************************)
EXTENDS Naturals, Sequences, FiniteSets, TLC

VARIABLES
    \* main
    packages, archweb_orphans, unneeded, required_orphans, required_by,
    maintainers, todo, orphan, pending, lookups, lookup_result, pc,
    \* the version normalisation of parse_repo
    deps_in, tmp, npass,
    \* parse_desc
    iofile, lineno, store, blockname,
    \* parse_repo
    members, midx, pkgs, repo_result, rpc,
    \* get_packages
    gpc, repo_i, tmpdir_exists, files, gpkgs, raised

mainVars == <<packages, archweb_orphans, unneeded, required_orphans, required_by,
              maintainers, todo, orphan, pending, lookups, lookup_result, pc>>

normVars == <<deps_in, tmp, npass>>

descVars == <<iofile, lineno, store, blockname>>

repoVars == <<members, midx, pkgs, repo_result, rpc>>

getVars == <<gpc, repo_i, tmpdir_exists, files, gpkgs, raised>>

vars == <<mainVars, normVars, descVars, repoVars, getVars>>

----------------------------------------------------------------------------
(* Bounds and input alphabets *)

\* package names that may occur in the index, in the orphan set and as deps
Names == {"A", "B", "C"}

\* at most this many (package, field, dependency) entries in the whole index
MaxEdges == 2

\* the values the maintainer lookup may answer with
MaintainerLists == {<<"m1">>, <<"m2">>}

\* the characters of a dependency entry: a name character and the operators
DepChars == {"a", "<", ">", "="}

\* the lines a record may hold: empty and blank lines, markers (with a name,
\* with an empty name), values with and without surrounding blanks, and a
\* value that only starts with a percent sign
DescLines ==
    { <<>>, <<" ">>,
      <<"%", "N", "%">>, <<"%", "M", "%">>, <<"%", "%">>, <<"%">>,
      <<"v">>, <<" ", "v", " ">>, <<"w">>, <<"%", "v">> }

\* an archive has at most this many package directories
MaxMembers == 2

\* a record has at most this many lines
MaxLines == 3

\* a dependency entry has at most this many characters
MaxDepLen == 3

\* the four dependency fields of a package (parse_repo)
pkgfields == {"depends", "makedepends", "optdepends", "checkdepends"}

None == "None"

----------------------------------------------------------------------------
(* Strings as sequences of characters *)

Contains(s, ch) == \E i \in 1..Len(s) : s[i] = ch

FirstIndex(s, ch) == CHOOSE i \in 1..Len(s) : s[i] = ch /\ \A j \in 1..(i - 1) : s[j] # ch

LastIndex(s, ch) == CHOOSE i \in 1..Len(s) : s[i] = ch /\ \A j \in (i + 1)..Len(s) : s[j] # ch

\* s.rsplit(ch, 1)[0]: the text before the last occurrence of ch
rsplit_head(s, ch) == IF Contains(s, ch) THEN SubSeq(s, 1, LastIndex(s, ch) - 1) ELSE s

\* s.split(ch)[0]: the text before the first occurrence of ch
split_head(s, ch) == IF Contains(s, ch) THEN SubSeq(s, 1, FirstIndex(s, ch) - 1) ELSE s

----------------------------------------------------------------------------
(* The parts of the program a specification leaves alone *)

\* the main program has not been started
IdleMain ==
    /\ packages = <<>> /\ archweb_orphans = {} /\ unneeded = {}
    /\ required_orphans = <<>> /\ required_by = <<>> /\ maintainers = <<>>
    /\ todo = {} /\ orphan = None /\ pending = {}
    /\ lookups = [p \in Names |-> 0] /\ lookup_result = <<>> /\ pc = "idle"

\* no field is being normalised
IdleNorm == deps_in = {} /\ tmp = {} /\ npass = 0

\* a mapping with no key
EmptyMap == [x \in {} |-> {}]

\* parse_repo has not returned
Unset == <<"unset">>

\* parse_repo is not running
IdleRepo ==
    members = <<>> /\ midx = 0 /\ pkgs = EmptyMap /\ repo_result = Unset /\ rpc = "idle"

\* get_packages is not running
IdleGet ==
    /\ gpc = "idle" /\ repo_i = 0 /\ tmpdir_exists = FALSE /\ files = {}
    /\ gpkgs = EmptyMap /\ raised = None

\* parse_desc is not running
IdleDesc == iofile = <<>> /\ lineno = 0 /\ store = <<>> /\ blockname = <<"idle">>

----------------------------------------------------------------------------
(* parse_desc *)

\* blockname = None
NoBlock == <<"None">>

IsSpace(c) == c = " "

RECURSIVE lstrip(_)
lstrip(s) == IF s # <<>> /\ IsSpace(Head(s)) THEN lstrip(Tail(s)) ELSE s

RECURSIVE rstrip(_)
rstrip(s) ==
    IF s # <<>> /\ IsSpace(s[Len(s)]) THEN rstrip(SubSeq(s, 1, Len(s) - 1)) ELSE s

\* line.strip()
strip(s) == rstrip(lstrip(s))

\* str.lower(), on the letters of DescLines
lower_char(c) == IF c = "N" THEN "n" ELSE IF c = "M" THEN "m" ELSE c

lower(s) == [i \in 1..Len(s) |-> lower_char(s[i])]

\* line.startswith("%") and line.endswith("%")
is_marker(line) == line # <<>> /\ Head(line) = "%" /\ line[Len(line)] = "%"

\* line[1:-1].lower()
marker_name(line) == lower(SubSeq(line, 2, Len(line) - 1))

\* the truth value of blockname: neither None nor the empty string
truthy(b) == b # NoBlock /\ b # <<>>

\* store[k] = v
SetItem(d, k, v) == [x \in DOMAIN d \cup {k} |-> IF x = k THEN v ELSE d[x]]

InitDesc ==
    /\ \E n \in 0..MaxLines : iofile \in [1..n -> DescLines]
    /\ lineno = 0
    /\ store = <<>>
    /\ blockname = NoBlock

\* one iteration of "for line in iofile"
ParseLine ==
    /\ blockname # <<"idle">>
    /\ lineno < Len(iofile)
    /\ lineno' = lineno + 1
    /\ LET line == strip(iofile[lineno + 1]) IN
         IF line = <<>>
         THEN UNCHANGED <<store, blockname>>
         ELSE IF is_marker(line)
         THEN /\ blockname' = marker_name(line)
              /\ store' = SetItem(store, blockname', <<>>)
         ELSE IF truthy(blockname)
         THEN /\ store' = [store EXCEPT ![blockname] = Append(@, line)]
              /\ UNCHANGED blockname
         ELSE UNCHANGED <<store, blockname>>
    /\ UNCHANGED iofile
    /\ UNCHANGED <<mainVars, normVars, repoVars, getVars>>

NextDesc == ParseLine

\* the program state when only this part runs
StartDesc == InitDesc /\ IdleMain /\ IdleNorm /\ IdleRepo /\ IdleGet

SpecDesc == StartDesc /\ [][NextDesc]_vars

\* the positions of the marker lines
MarkerAt(i) == is_marker(strip(iofile[i]))

\* the position of the last marker named k
LastMarker(k) ==
    CHOOSE i \in 1..Len(iofile) :
        /\ MarkerAt(i) /\ marker_name(strip(iofile[i])) = k
        /\ \A j \in (i + 1)..Len(iofile) :
              ~(MarkerAt(j) /\ marker_name(strip(iofile[j])) = k)

\* the last line of the block opened at i: the line before the next marker
BlockEnd(i) ==
    LET later == {j \in (i + 1)..Len(iofile) : MarkerAt(j)}
    IN  IF later = {} THEN Len(iofile)
        ELSE (CHOOSE j \in later : \A m \in later : j <= m) - 1

RECURSIVE ValuesFrom(_, _)
\* the stripped non-blank lines at positions i..j, in order
ValuesFrom(i, j) ==
    IF i > j THEN <<>>
    ELSE IF strip(iofile[i]) = <<>> THEN ValuesFrom(i + 1, j)
    ELSE <<strip(iofile[i])>> \o ValuesFrom(i + 1, j)

\* the mapping the contract of parse_desc describes
ExpectedStore ==
    LET keys == {marker_name(strip(iofile[i])) : i \in {j \in 1..Len(iofile) : MarkerAt(j)}}
    IN  [k \in keys |-> ValuesFrom(LastMarker(k) + 1, BlockEnd(LastMarker(k)))]

\* C8: parse_desc returns the lowercased marker names as keys, and for each
\* block the ordered non-blank lines between its marker and the next marker
\* or the end of input, also for a marker whose name is empty.
C8_ParseDesc ==
    lineno = Len(iofile) => store = ExpectedStore

\* The same mapping for the blocks whose name is not empty; the block of an
\* empty name stays empty.
C8_NamedBlocks ==
    lineno = Len(iofile) =>
        /\ DOMAIN store = DOMAIN ExpectedStore
        /\ \A k \in DOMAIN store : k # <<>> => store[k] = ExpectedStore[k]
        /\ <<>> \in DOMAIN store => store[<<>>] = <<>>

----------------------------------------------------------------------------
(* parse_repo: "remove version requirements" *)

DepStrings == UNION {[1..n -> DepChars] : n \in 0..MaxDepLen}

\* the characters stripped, in the order of the passes
version_chars == <<"<", ">", "=">>

\* tmp = pkgs[pkgname][key], for a field of one or two entries
InitNorm ==
    /\ \E d1, d2 \in DepStrings : deps_in = {d1, d2}
    /\ tmp = deps_in
    /\ npass = 0

\* tmp = {dep.split(ch)[0] if ch in dep else dep for dep in tmp}
strip_pass(S, ch) == {IF Contains(dep, ch) THEN split_head(dep, ch) ELSE dep : dep \in S}

RECURSIVE strip_passes(_, _)
\* the passes for version_chars[i..], in order
strip_passes(S, i) ==
    IF i > Len(version_chars) THEN S
    ELSE strip_passes(strip_pass(S, version_chars[i]), i + 1)

\* one iteration of "for ch in ('<', '>', '=')"
StripPass ==
    /\ npass < Len(version_chars)
    /\ deps_in # {}
    /\ tmp' = strip_pass(tmp, version_chars[npass + 1])
    /\ npass' = npass + 1
    /\ UNCHANGED deps_in
    /\ UNCHANGED <<mainVars, descVars, repoVars, getVars>>

NextNorm == StripPass

\* the program state when only this part runs
StartNorm == InitNorm /\ IdleMain /\ IdleDesc /\ IdleRepo /\ IdleGet

SpecNorm == StartNorm /\ [][NextNorm]_vars

IsVersionChar(c) == \E i \in 1..Len(version_chars) : version_chars[i] = c

NoVersionChar(s) == \A i \in 1..Len(s) : ~IsVersionChar(s[i])

\* the longest prefix of s that holds none of '<', '>', '='
BareName(s) ==
    LET stops == {i \in 1..Len(s) : IsVersionChar(s[i])}
    IN  IF stops = {} THEN s
        ELSE SubSeq(s, 1, (CHOOSE i \in stops : \A j \in stops : i <= j) - 1)

\* C7: after the three passes every entry has become its bare name, the
\* prefix before the first of '<', '>', '=': no result holds one of these
\* characters and an entry without any of them is unchanged.
C7_BareNames ==
    npass = Len(version_chars) =>
        /\ tmp = {BareName(d) : d \in deps_in}
        /\ \A t \in tmp : NoVersionChar(t)
        /\ \A d \in deps_in : NoVersionChar(d) => d \in tmp

\* an entry with '=' followed later by '<', and one with '>='
C7_Witness ==
    /\ npass = Len(version_chars)
    /\ \E d, e \in deps_in :
          /\ Len(d) = 3 /\ d[1] = "a" /\ d[2] = "=" /\ d[3] = "<"
          /\ Len(e) = 3 /\ e[1] = "a" /\ e[2] = ">" /\ e[3] = "="
          /\ tmp = {<<"a">>}

----------------------------------------------------------------------------
(* parse_repo: the loop over the package directories *)

\* the dependency fields a metadata record ('desc') may declare
DescMaps ==
    { EmptyMap,
      ("depends" :> {<<"a", ">", "=", "1">>}),
      ("optdepends" :> {<<"b", ":", " ", "x">>}),
      ("depends" :> {<<"a">>}) @@ ("makedepends" :> {<<"b", "<", "2">>}) }

\* the dependency fields a build-dependency record ('depends') may declare
DependsMaps ==
    { EmptyMap,
      ("makedepends" :> {<<"c">>}),
      ("depends" :> {<<"c", "=", "1">>}),
      ("checkdepends" :> {<<"a">>}) }

\* a package directory: which of its two records exist, and what they declare
Members ==
    {[hasDesc |-> TRUE, desc |-> d, hasDepends |-> TRUE, depends |-> b] :
        d \in DescMaps, b \in DependsMaps}
    \cup {[hasDesc |-> TRUE, desc |-> d, hasDepends |-> FALSE, depends |-> EmptyMap] :
        d \in DescMaps}
    \cup {[hasDesc |-> FALSE, desc |-> EmptyMap, hasDepends |-> TRUE, depends |-> b] :
        b \in DependsMaps}
    \cup {[hasDesc |-> FALSE, desc |-> EmptyMap, hasDepends |-> FALSE, depends |-> EmptyMap]}

\* the archive: its package directories in order.  A repository database
\* holds one directory per package name, and 'desc' always declares name and
\* arch: the package of the i-th directory is named i, and the repo, arch
\* and pkgbase attributes, which no dependency field depends on, are left out.
InitRepo ==
    /\ \E n \in 0..MaxMembers : members \in [1..n -> Members]
    /\ midx = 0
    /\ pkgs = EmptyMap
    /\ repo_result = Unset
    /\ rpc = "members"

\* pkgs[pkgname][key].update(depends[key]), or = set(depends[key]) on KeyError
merge_depends(f, d) ==
    [key \in DOMAIN f \cup DOMAIN d |->
        IF key \notin DOMAIN d THEN f[key]
        ELSE IF key \in DOMAIN f THEN f[key] \cup d[key] ELSE d[key]]

\* remove descriptions from optional dependencies
strip_descriptions(f) ==
    [key \in DOMAIN f |->
        IF key = "optdepends" THEN {split_head(optdep, ":") : optdep \in f[key]}
        ELSE f[key]]

\* remove version requirements
strip_versions(f) == [key \in DOMAIN f |-> strip_passes(f[key], 1)]

\* a parse_repo that leaves undeclared fields unset
fill_nothing(f) == f

\* assign empty sets to missing fields
fill_missing(f) == [key \in pkgfields |-> IF key \in DOMAIN f THEN f[key] ELSE {}]

\* the package entity of a directory whose 'desc' exists
package_of(m) ==
    LET merged == IF m.hasDepends THEN merge_depends(m.desc, m.depends) ELSE m.desc
    IN  fill_missing(strip_versions(strip_descriptions(merged)))

\* one iteration of "for tarinfo in repodb.getmembers()" on a directory
ParseMember ==
    /\ rpc = "members"
    /\ midx < Len(members)
    /\ LET m == members[midx + 1] IN
         IF ~m.hasDesc
         THEN \* repodb.getmember(pkgid/desc) raises KeyError, outside any try
              /\ rpc' = "KeyError"
              /\ UNCHANGED <<midx, pkgs>>
         ELSE /\ pkgs' = SetItem(pkgs, midx + 1, package_of(m))
              /\ midx' = midx + 1
              /\ UNCHANGED rpc
    /\ UNCHANGED <<members, repo_result>>
    /\ UNCHANGED <<mainVars, normVars, descVars, getVars>>

\* return pkgs
ReturnPkgs ==
    /\ rpc = "members"
    /\ midx = Len(members)
    /\ repo_result' = pkgs
    /\ rpc' = "returned"
    /\ UNCHANGED <<members, midx, pkgs>>
    /\ UNCHANGED <<mainVars, normVars, descVars, getVars>>

NextRepo == ParseMember \/ ReturnPkgs

\* the program state when only this part runs
StartRepo == InitRepo /\ IdleMain /\ IdleNorm /\ IdleDesc /\ IdleGet

SpecRepo == StartRepo /\ [][NextRepo]_vars

\* the bare names of the entries a record declares for a field
ExpectedField(key, f) ==
    IF key \notin DOMAIN f THEN {}
    ELSE {BareName(IF key = "optdepends" THEN split_head(e, ":") ELSE e) : e \in f[key]}

\* C9: a directory with no 'desc' makes parse_repo fail and return nothing,
\* and the loop never gets past it; a directory with no 'depends' is no
\* error: parse_repo fails only at a directory without 'desc', and a returned
\* package without 'depends' has all four fields, each the normalised set of
\* its 'desc' (empty when not declared).
C9_MissingRecords ==
    /\ \A i \in 1..Len(members) :
          ~members[i].hasDesc => rpc # "returned" /\ midx < i /\ repo_result = Unset
    /\ rpc = "KeyError" => ~members[midx + 1].hasDesc /\ repo_result = Unset
    /\ \A i \in DOMAIN pkgs :
          /\ DOMAIN pkgs[i] = pkgfields
          /\ ~members[i].hasDepends =>
                \A key \in pkgfields : pkgs[i][key] = ExpectedField(key, members[i].desc)
    /\ rpc = "returned" => repo_result = pkgs /\ DOMAIN pkgs = 1..Len(members)

\* a directory without 'depends' was read, then one without 'desc' failed
C9_Witness ==
    /\ rpc = "KeyError"
    /\ midx = 1
    /\ ~members[1].hasDepends
    /\ "optdepends" \in DOMAIN members[1].desc
    /\ pkgs[1].optdepends = {<<"b">>}
    /\ pkgs[1].depends = {}
    /\ repo_result = Unset

----------------------------------------------------------------------------
(* get_packages *)

\* the repositories, in the order they are read
repos == <<"core", "extra", "community", "multilib">>

\* the package names one repository database may hold
RepoNames == {"x", "y"}

InitGet ==
    /\ gpc = "start"
    /\ repo_i = 0
    /\ tmpdir_exists = FALSE
    /\ files = {}
    /\ gpkgs = EmptyMap
    /\ raised = None

\* pkgs.update(parse_repo(dbpath)), for a database holding the names in c
update(d, c, repo) == [n \in DOMAIN d \cup c |-> IF n \in c THEN repo ELSE d[n]]

\* a staging directory that is only removed when the block ends normally
removed_on_return_only(how) == how = "leave"

\* TemporaryDirectory.__exit__ removes the directory however the block ends
removed_on_exit(how) == how \in {"leave", "unwind"}

\* with tempfile.TemporaryDirectory() as tmpdir
EnterWith ==
    /\ gpc = "start"
    /\ tmpdir_exists' = TRUE
    /\ repo_i' = 1
    /\ gpc' = "fetch"
    /\ UNCHANGED <<files, gpkgs, raised>>
    /\ UNCHANGED <<mainVars, normVars, descVars, repoVars>>

\* response = requests.get(url)
Fetch ==
    /\ gpc = "fetch"
    /\ \/ gpc' = "write" /\ UNCHANGED raised
       \/ gpc' = "unwind" /\ raised' = "fetch"
    /\ UNCHANGED <<repo_i, tmpdir_exists, files, gpkgs>>
    /\ UNCHANGED <<mainVars, normVars, descVars, repoVars>>

\* with open(dbpath, "wb") as f: f.write(response.content)
WriteDb ==
    /\ gpc = "write"
    /\ \/ /\ files' = files \cup {repos[repo_i]}
          /\ gpc' = "parse"
          /\ UNCHANGED raised
       \/ \* the open or the write fails; the file may have been created
          /\ files' \in {files, files \cup {repos[repo_i]}}
          /\ gpc' = "unwind"
          /\ raised' = "write"
    /\ UNCHANGED <<repo_i, tmpdir_exists, gpkgs>>
    /\ UNCHANGED <<mainVars, normVars, descVars, repoVars>>

\* pkgs.update(parse_repo(dbpath)), and on to the next repository
ParseDb ==
    /\ gpc = "parse"
    /\ \/ \E c \in SUBSET RepoNames :
            /\ gpkgs' = update(gpkgs, c, repos[repo_i])
            /\ IF repo_i = Len(repos)
               THEN gpc' = "leave" /\ UNCHANGED repo_i
               ELSE gpc' = "fetch" /\ repo_i' = repo_i + 1
            /\ UNCHANGED raised
       \/ \* parse_repo raises
          /\ gpc' = "unwind"
          /\ raised' = "parse"
          /\ UNCHANGED <<repo_i, gpkgs>>
    /\ UNCHANGED <<tmpdir_exists, files>>
    /\ UNCHANGED <<mainVars, normVars, descVars, repoVars>>

\* the with block is left: by falling off its end, or by an exception
ExitWith ==
    /\ gpc \in {"leave", "unwind"}
    /\ IF removed_on_exit(gpc)
       THEN tmpdir_exists' = FALSE /\ files' = {}
       ELSE UNCHANGED <<tmpdir_exists, files>>
    /\ gpc' = IF gpc = "leave" THEN "returned" ELSE "raised"
    /\ UNCHANGED <<repo_i, gpkgs, raised>>
    /\ UNCHANGED <<mainVars, normVars, descVars, repoVars>>

NextGet == EnterWith \/ Fetch \/ WriteDb \/ ParseDb \/ ExitWith

\* the program state when only this part runs
StartGet == InitGet /\ IdleMain /\ IdleNorm /\ IdleDesc /\ IdleRepo

SpecGet == StartGet /\ [][NextGet]_vars

\* get_packages is sequential code: it keeps running until it is left
FairSpecGet == SpecGet /\ WF_vars(NextGet)

\* get_packages has been left
Left == gpc \in {"returned", "raised"}

StagingSafe ==
    /\ Left => ~tmpdir_exists /\ files = {}
    /\ raised # None => gpc \in {"unwind", "raised"}
    /\ gpc = "raised" => raised # None

\* C10: get_packages is eventually left, and whenever it has been left, by
\* a return or by a failure of the fetch, the write or parse_repo at any
\* repository, the staging directory and the files in it no longer exist;
\* a failure is never turned into a return.
C10_StagingRemoved == [](StagingSafe) /\ <>(Left /\ ~tmpdir_exists)

\* parse_repo failed at the last repository, after four files were written
C10_Witness ==
    /\ gpc = "raised"
    /\ raised = "parse"
    /\ repo_i = Len(repos)
    /\ ~tmpdir_exists

----------------------------------------------------------------------------
(* main: find_unneeded_orphans, what_requires, the per-orphan loop *)

\* the Dependency Index built from a set of (pkg, key, dep) entries: every
\* package has the four fields (parse_repo fills the missing ones).
\* lookups and lookup_result record the calls of get_maintainers and their
\* answers; todo and pending are what the two for loops have left to visit,
\* in any order (the loops iterate over sets).
IndexOf(K, E) ==
    [p \in K |-> [key \in pkgfields |->
        {e[3] : e \in {x \in E : x[1] = p /\ x[2] = key}}]]

InitMain ==
    /\ \E K \in SUBSET Names : \E n \in 0..MaxEdges :
         \E es \in [1..n -> K \X pkgfields \X Names] :
            packages = IndexOf(K, {es[i] : i \in 1..n})
    /\ archweb_orphans \in SUBSET Names
    /\ unneeded = {}
    /\ required_orphans = <<>>
    /\ required_by = <<>>
    /\ maintainers = <<>>
    /\ todo = {}
    /\ orphan = None
    /\ pending = {}
    /\ lookups = [p \in Names |-> 0]
    /\ lookup_result = <<>>
    /\ pc = "start"

\* the keys find_unneeded_orphans collects dependencies from
required_keys == {"depends", "makedepends", "optdepends", "checkdepends"}

\* find_unneeded_orphans(pkgs, orphans)
find_unneeded_orphans(index, orphans) ==
    LET required == UNION {index[pkg][key] : pkg \in DOMAIN index, key \in required_keys}
    IN  orphans \ required

\* a what_requires that also counts optional dependencies
deptypes_with_optional == {"depends", "makedepends", "optdepends", "checkdepends"}

\* the hard dependency fields what_requires looks at
deptypes == {"depends", "makedepends", "checkdepends"}

\* what_requires(pkgs, pkgname)
what_requires(index, pkgname) ==
    {pkg \in DOMAIN index : \E deptype \in deptypes : pkgname \in index[pkg][deptype]}

\* a cache test that never finds the cached value
NeverCached(pkg) == FALSE

\* "maintainers" in packages[pkg]
HasMaintainers(pkg) == pkg \in DOMAIN maintainers

\* where the for loop over archweb_orphans - unneeded goes next
LoopPc(rest) == IF rest = {} THEN "done" ELSE "loop"

\* unneeded = find_unneeded_orphans(...); required_orphans = {}
FindUnneeded ==
    /\ pc = "start"
    /\ unneeded' = find_unneeded_orphans(packages, archweb_orphans)
    /\ required_orphans' = <<>>
    /\ todo' = archweb_orphans \ unneeded'
    /\ pc' = LoopPc(todo')
    /\ UNCHANGED <<packages, archweb_orphans, required_by, maintainers, orphan,
                   pending, lookups, lookup_result>>
    /\ UNCHANGED <<normVars, descVars, repoVars, getVars>>

\* one iteration of "for orphan in archweb_orphans - unneeded", up to the
\* inner loop over the requirers
ForOrphan ==
    /\ pc = "loop"
    /\ \E o \in todo :
        /\ orphan' = o
        /\ todo' = todo \ {o}
        /\ IF o \notin DOMAIN packages
           THEN \* packages[orphan] raises KeyError
                /\ pc' = "KeyError"
                /\ UNCHANGED <<required_by, unneeded, required_orphans, pending>>
           ELSE LET rb == what_requires(packages, o) IN
                /\ required_by' = (o :> rb) @@ required_by
                /\ IF rb \subseteq archweb_orphans
                   THEN /\ unneeded' = unneeded \cup {o}
                        /\ pc' = LoopPc(todo')
                        /\ UNCHANGED <<required_orphans, pending>>
                   ELSE /\ required_orphans' = (o :> [by_pkg |-> <<>>]) @@ required_orphans
                        /\ pending' = rb
                        /\ pc' = "by_pkg"
                        /\ UNCHANGED unneeded
    /\ UNCHANGED <<packages, archweb_orphans, maintainers, lookups, lookup_result>>
    /\ UNCHANGED <<normVars, descVars, repoVars, getVars>>

\* required_orphans[orphan]["by-pkg"][pkg] = m
Record(pkg, m) ==
    required_orphans' = [required_orphans EXCEPT ![orphan].by_pkg = (pkg :> m) @@ @]

\* one iteration of "for pkg in packages[orphan]['required_by']"
ForPkg ==
    /\ pc = "by_pkg"
    /\ \E pkg \in pending :
        /\ pending' = pending \ {pkg}
        /\ IF ~HasMaintainers(pkg)
           THEN \/ \E m \in MaintainerLists :  \* get_maintainers answers m
                    /\ lookups' = [lookups EXCEPT ![pkg] = @ + 1]
                    /\ lookup_result' = (pkg :> m) @@ lookup_result
                    /\ maintainers' = (pkg :> m) @@ maintainers
                    /\ Record(pkg, m)
                    /\ pc' = IF pending' = {} THEN LoopPc(todo) ELSE "by_pkg"
                \/ \* get_maintainers fails: the request raises
                    /\ lookups' = [lookups EXCEPT ![pkg] = @ + 1]
                    /\ pc' = "NetError"
                    /\ UNCHANGED <<lookup_result, maintainers, required_orphans>>
           ELSE /\ Record(pkg, maintainers[pkg])
                /\ pc' = IF pending' = {} THEN LoopPc(todo) ELSE "by_pkg"
                /\ UNCHANGED <<lookups, lookup_result, maintainers>>
    /\ UNCHANGED <<packages, archweb_orphans, unneeded, required_by, todo, orphan>>
    /\ UNCHANGED <<normVars, descVars, repoVars, getVars>>

Init == InitMain /\ IdleNorm /\ IdleDesc /\ IdleRepo /\ IdleGet

Next == FindUnneeded \/ ForOrphan \/ ForPkg

Spec == Init /\ [][Next]_vars

----------------------------------------------------------------------------
(* Properties of the classification and of the maintainer aggregation *)

\* the packages of the index that name o in a hard dependency field
HardRequirers(o) ==
    {p \in DOMAIN packages :
        o \in packages[p].depends \cup packages[p].makedepends
                \cup packages[p].checkdepends}

Classified == unneeded \cup DOMAIN required_orphans

\* C1: for every index and every orphan set the classification runs to its
\* end, and ends with unneeded and the keys of required partitioning the
\* orphan set.
C1_Partition ==
    /\ pc # "KeyError"
    /\ pc = "done" =>
          /\ Classified = archweb_orphans
          /\ unneeded \cap DOMAIN required_orphans = {}

\* The same partition, required only of the runs that reach the end.
C1_PartitionWhenDone ==
    pc = "done" =>
        /\ Classified = archweb_orphans
        /\ unneeded \cap DOMAIN required_orphans = {}

\* C2: an orphan that is not a key of the index never makes the
\* classification fail, and ends up in unneeded with no requirers recorded.
C2_UnindexedTolerated ==
    \A o \in archweb_orphans \ DOMAIN packages :
        /\ ~(pc = "KeyError" /\ orphan = o)
        /\ pc = "done" => o \in unneeded /\ o \notin DOMAIN required_orphans

\* C3: at the end every orphan o is a key of required exactly when some
\* hard requirer of o is not an orphan, the set recorded for it is then the
\* set of all its hard requirers, and otherwise o is in unneeded; no orphan
\* is left unclassified by a failure of the classification.
C3_RequiredIffNonOrphanRequirer ==
    /\ pc # "KeyError"
    /\ pc = "done" =>
          \A o \in archweb_orphans :
             /\ o \in DOMAIN required_orphans
                   <=> (\E p \in HardRequirers(o) : p \notin archweb_orphans)
             /\ o \in DOMAIN required_orphans
                   => DOMAIN required_orphans[o].by_pkg = HardRequirers(o)
             /\ o \notin DOMAIN required_orphans => o \in unneeded

\* The same classification, required only of the runs that reach the end.
C3_WhenDone ==
    pc = "done" =>
        \A o \in archweb_orphans :
           /\ o \in DOMAIN required_orphans
                 <=> (\E p \in HardRequirers(o) : p \notin archweb_orphans)
           /\ o \in DOMAIN required_orphans
                 => DOMAIN required_orphans[o].by_pkg = HardRequirers(o)
           /\ o \notin DOMAIN required_orphans => o \in unneeded

RECURSIVE NeededWithin(_, _)
\* the orphans hard-required by a non-orphan package through a chain of at
\* most n orphan requirers
NeededWithin(n, S) ==
    IF n = 0 THEN S
    ELSE NeededWithin(n - 1,
            S \cup {o \in archweb_orphans :
                      \E p \in HardRequirers(o) : p \notin archweb_orphans \/ p \in S})

StillNeeded == NeededWithin(Cardinality(Names), {})

\* C4: no orphan of the final unneeded set is hard-required by a non-orphan
\* package, directly or through a chain of orphan requirers.
C4_UnneededSafeToDrop ==
    pc = "done" => unneeded \cap StillNeeded = {}

\* No orphan of unneeded has a non-orphan hard requirer (one level only).
C4_NoDirectRequirer ==
    \A o \in unneeded : HardRequirers(o) \subseteq archweb_orphans

\* o is an indexed orphan that occurs in optdepends only
OnlyOptional(o) ==
    /\ o \in archweb_orphans \cap DOMAIN packages
    /\ \E p \in DOMAIN packages : o \in packages[p].optdepends
    /\ HardRequirers(o) = {}

\* C5: an indexed orphan named in optdepends only is not in the initial
\* unneeded set, gets an empty requirer set when the loop reaches it, is then
\* put in unneeded and never in required, and is in unneeded at the end.
C5_OnlyOptionalUnneeded ==
    \A o \in Names : OnlyOptional(o) =>
        /\ (pc # "start" /\ o \notin DOMAIN required_by) => o \notin unneeded
        /\ o \in DOMAIN required_by => required_by[o] = {} /\ o \in unneeded
        /\ o \notin DOMAIN required_orphans
        /\ pc = "done" => o \in unneeded

C5_Witness ==
    /\ pc = "done"
    /\ \E o \in Names : \E p \in DOMAIN packages :
          /\ OnlyOptional(o)
          /\ o \in packages[p].optdepends
          /\ p \notin archweb_orphans
          /\ o \in DOMAIN required_by
          /\ o \in unneeded

\* C6: get_maintainers is called at most once for any package, and every
\* value recorded for an (orphan, requirer) pair is the value that single
\* call returned, which is also the value cached on the package.
C6_OneLookupPerPackage ==
    /\ \A p \in Names : lookups[p] <= 1
    /\ \A o \in DOMAIN required_orphans :
          \A p \in DOMAIN required_orphans[o].by_pkg :
             /\ lookups[p] = 1
             /\ p \in DOMAIN lookup_result /\ p \in DOMAIN maintainers
             /\ required_orphans[o].by_pkg[p] = lookup_result[p]
             /\ maintainers[p] = lookup_result[p]

C6_Witness ==
    /\ pc = "done"
    /\ \E o1, o2 \in DOMAIN required_orphans : \E p \in Names :
          /\ o1 # o2
          /\ p \in DOMAIN required_orphans[o1].by_pkg
          /\ p \in DOMAIN required_orphans[o2].by_pkg
          /\ lookups[p] = 1

====
